---- MODULE Spec2Model ----
(***************************************************************************)
(* Model of the NameTag feature processors of                              *)
(* src/src/features/feature_processor_instances.cpp.                       *)
(*                                                                         *)
(* Strings are sequences of one-character strings, so that splitting a     *)
(* gazetteer line, joining lemmas with a space and scanning digits are     *)
(* computed as the code computes them.  Token indices are 0-based as in    *)
(* the code: per-token vectors are functions over 0..size-1.               *)
(* Feature ids are unsigned 32-bit in the code; the bounded models keep    *)
(* every id far below 2^31 and every base id at least `window`, so the     *)
(* additions of the window primitive never wrap.                           *)
(***************************************************************************)
EXTENDS Integers, Sequences, FiniteSets, TLC

VARIABLES window, total_features, map, clusters, gazetteers_info, url, email,
          sentence, entities, buffer, added, data, status, name, parsed, call, steps

procVars == <<window, total_features, map, clusters, gazetteers_info, url, email>>
entVars == <<entities, buffer, added>>
runVars == <<name, parsed>>
vars == <<window, total_features, map, clusters, gazetteers_info, url, email,
          sentence, entities, buffer, added, data, status, name, parsed, call, steps>>

\* ------------------------------------------------------------------------
\* Bounds of the models
\* ------------------------------------------------------------------------
MaxWindow == 2
MaxSize == 2
MaxCalls == 2
MaxEntities == 3
MaxTokens == 3
MaxNumTokens == 2
MaxFiles == 2
MaxLemmas == 3

\* ------------------------------------------------------------------------
\* Shared values
\* ------------------------------------------------------------------------
\* ner_feature_unknown is ~0U; it is modelled by the int reading of that
\* bit pattern, a value no allocated feature id takes.
ner_feature_unknown == 0 - 1

Max(a, b) == IF a < b THEN b ELSE a
Min(a, b) == IF a < b THEN a ELSE b

NoCall == [kind |-> "none"]
NoParse == [t0 |-> 0, args |-> <<>>, bands |-> <<>>]

\* a sentence of n tokens with empty accumulators
NoWord == [form |-> <<>>, raw_lemma |-> <<>>, detect |-> "NO_URL"]
NoStage == [bilou |-> 0 - 1, entity |-> 0 - 1]
NoProb == [local |-> [b \in 0..4 |-> [probability |-> "0.", entity |-> 0 - 1]], local_filled |-> FALSE]
EmptySentence(n) ==
  [size |-> n,
   words |-> [p \in 0..(n - 1) |-> NoWord],
   features |-> [p \in 0..(n - 1) |-> <<>>],
   previous_stage |-> [p \in 0..(n - 1) |-> NoStage],
   probabilities |-> [p \in 0..(n - 1) |-> NoProb],
   oob |-> FALSE]

\* ------------------------------------------------------------------------
\* Window emission primitive (the macros at the head of the file)
\* ------------------------------------------------------------------------
\* sentence.features[_w].emplace_back(v); an index outside the vector is
\* recorded in oob instead of being written
emplace_feature(s, w, v) ==
  IF w \in DOMAIN s.features
    THEN [s EXCEPT !.features[w] = Append(@, v)]
    ELSE [s EXCEPT !.oob = TRUE]

RECURSIVE apply_loop(_, _, _, _, _)
apply_loop(s, feature, I, w, end) ==
  IF w < end
    THEN apply_loop(emplace_feature(s, w, feature + w - I), feature, I, w + 1, end)
    ELSE s

apply_in_range_short(s, win, I, Feature, Left, Right) ==
  IF Feature # ner_feature_unknown
    THEN apply_loop(s, Feature, I,
                    IF I + Left < 0 THEN 0 ELSE I + Left,
                    IF I + Right < s.size THEN I + Right ELSE s.size)
    ELSE s

apply_in_range(s, win, I, Feature, Left, Right) ==
  IF Feature # ner_feature_unknown
    THEN apply_loop(s, Feature, I,
                    IF I + Left < 0 THEN 0 ELSE I + Left,
                    IF I + Right + 1 < s.size THEN I + Right + 1 ELSE s.size)
    ELSE s

apply_in_window(s, win, I, Feature) == apply_in_range(s, win, I, Feature, 0 - win, win)

RECURSIVE outer_loop(_, _, _, _)
outer_loop(s, win, i, f) ==
  IF i <= win
    THEN outer_loop(apply_in_window(apply_in_window(s, win, 0 - i, f), win, s.size - 1 + i, f),
                    win, i + 1, f)
    ELSE s

apply_outer_words_in_window(s, win, Feature) ==
  IF Feature # ner_feature_unknown THEN outer_loop(s, win, 1, Feature) ELSE s

\* lookup(string()) always returns window
lookup_empty(win) == win

\* ------------------------------------------------------------------------
\* SpecWindow: the primitive called on a sentence of any size
\* ------------------------------------------------------------------------
IdleProc ==
  /\ total_features = 0
  /\ map = <<>>
  /\ clusters = <<>>
  /\ gazetteers_info = <<>>
  /\ url = 0 - 1
  /\ email = 0 - 1
  /\ parsed = NoParse

IdleEnt ==
  /\ entities = <<>>
  /\ buffer = <<>>
  /\ added = <<>>

InitWindow ==
  /\ window \in 0..MaxWindow
  /\ name = "Form"
  /\ IdleProc
  /\ IdleEnt
  /\ \E n \in 0..MaxSize : sentence = EmptySentence(n)
  /\ data = <<>>
  /\ status = "ready"
  /\ call = NoCall
  /\ steps = 0

\* base ids a processor can hold: the empty-key id `window` and a centre of
\* an allocated band, or the unknown sentinel
BaseIds == {lookup_empty(window), 3 * window + 1, ner_feature_unknown}

CallApplyInRange ==
  /\ steps < MaxCalls
  /\ \E I \in (0 - (window + 1))..(sentence.size + window), f \in BaseIds,
        L \in (0 - window)..window, R \in (0 - window)..window :
       /\ sentence' = apply_in_range(sentence, window, I, f, L, R)
       /\ call' = [kind |-> "range", I |-> I, f |-> f, L |-> L, R |-> R]
  /\ steps' = steps + 1
  /\ UNCHANGED <<procVars, entVars, runVars, data, status>>

CallApplyInWindow ==
  /\ steps < MaxCalls
  /\ \E I \in (0 - (window + 1))..(sentence.size + window), f \in BaseIds :
       /\ sentence' = apply_in_window(sentence, window, I, f)
       /\ call' = [kind |-> "range", I |-> I, f |-> f, L |-> 0 - window, R |-> window]
  /\ steps' = steps + 1
  /\ UNCHANGED <<procVars, entVars, runVars, data, status>>

CallApplyOuterWords ==
  /\ steps < MaxCalls
  /\ \E f \in BaseIds :
       /\ sentence' = apply_outer_words_in_window(sentence, window, f)
       /\ call' = [kind |-> "outer", f |-> f]
  /\ steps' = steps + 1
  /\ UNCHANGED <<procVars, entVars, runVars, data, status>>

NextWindow == CallApplyInRange \/ CallApplyInWindow \/ CallApplyOuterWords

SpecWindow == InitWindow /\ [][NextWindow]_vars

\* C1: a call of the primitive with centre I, base f and range [L, R]
\* appends f + (p - I) to features[p] exactly for max(0, I+L) <= p <=
\* min(size-1, I+R) and leaves every other position alone; with the unknown
\* sentinel or on an empty sentence nothing is appended; no call, the outer
\* form included, indexes features outside [0, size).
C1_WindowExact ==
  [][ /\ sentence'.oob = FALSE
      /\ sentence'.size = 0 => sentence'.features = sentence.features
      /\ call'.kind = "range" =>
           \A p \in 0..(sentence.size - 1) :
             sentence'.features[p] =
               IF /\ call'.f # ner_feature_unknown
                  /\ Max(0, call'.I + call'.L) <= p
                  /\ p <= Min(sentence.size - 1, call'.I + call'.R)
                 THEN Append(sentence.features[p], call'.f + (p - call'.I))
                 ELSE sentence.features[p] ]_vars

\* a call centred on a virtual index left of the sentence reached a real token
C1_Witness ==
  /\ call.kind = "range"
  /\ call.I < 0
  /\ call.f # ner_feature_unknown
  /\ \E p \in 0..(sentence.size - 1) : sentence.features[p] # <<>>

\* ------------------------------------------------------------------------
\* CzechAddContainers
\* ------------------------------------------------------------------------
\* Entities are 1-based here: entities[i] of the code is es[i + 1], so the
\* code's `!i` is i = 1 and `j < entities.size()` is j <= Len(es).
EntityEnd(e) == e.start + e.length

\* entities[j].start == entities[j-1].start + entities[j-1].length
Abuts(es, j) == es[j].start = es[j - 1].start + es[j - 1].length

\* while (j < entities.size() && abutting && entities[j].type == t) j++
RECURSIVE skip_run(_, _, _)
skip_run(es, j, t) ==
  IF j <= Len(es) /\ Abuts(es, j) /\ es[j].type = t THEN skip_run(es, j + 1, t) ELSE j

named_entity(start, length, type) == [start |-> start, length |-> length, type |-> type]

not_after_any(es, i, t) == TRUE

\* the first-of-run test of the P block and of the second T block
not_after(es, i, t) ==
  i = 1 \/ EntityEnd(es[i - 1]) < es[i].start \/ es[i - 1].type # t

\* P if pf+ ps+
p_block(es, i) ==
  IF es[i].type = "pf" /\ not_after(es, i, "pf")
    THEN LET j == skip_run(es, i + 1, "pf") IN
         IF j <= Len(es) /\ Abuts(es, j) /\ es[j].type = "ps"
           THEN LET k == skip_run(es, j + 1, "ps") IN
                <<named_entity(es[i].start, EntityEnd(es[k - 1]) - es[i].start, "P")>>
           ELSE <<>>
    ELSE <<>>

td_block_no_ty(es, i) ==
  IF /\ es[i].type = "td"
     /\ i + 1 <= Len(es)
     /\ es[i + 1].start = EntityEnd(es[i])
     /\ es[i + 1].type = "tm"
    THEN <<named_entity(es[i].start, EntityEnd(es[i + 1]) - es[i].start, "T")>>
    ELSE <<>>

\* T if td tm ty | td tm
td_block(es, i) ==
  IF /\ es[i].type = "td"
     /\ i + 1 <= Len(es)
     /\ es[i + 1].start = EntityEnd(es[i])
     /\ es[i + 1].type = "tm"
    THEN LET j == IF i + 2 <= Len(es) /\ Abuts(es, i + 2) /\ es[i + 2].type = "ty"
                    THEN i + 3 ELSE i + 2 IN
         <<named_entity(es[i].start, EntityEnd(es[j - 1]) - es[i].start, "T")>>
    ELSE <<>>

\* T if !td tm ty
tm_block(es, i) ==
  IF /\ es[i].type = "tm"
     /\ not_after(es, i, "td")
     /\ i + 1 <= Len(es)
     /\ es[i + 1].start = EntityEnd(es[i])
     /\ es[i + 1].type = "ty"
    THEN <<named_entity(es[i].start, EntityEnd(es[i + 1]) - es[i].start, "T")>>
    ELSE <<>>

containers_at(es, i) == p_block(es, i) \o td_block(es, i) \o tm_block(es, i)

RECURSIVE entities_loop_after(_, _, _, _)
entities_loop_after(es, i, buf, mask) ==
  IF i <= Len(es)
    THEN LET c == containers_at(es, i) IN
         entities_loop_after(es, i + 1,
                             (buf \o <<es[i]>>) \o c,
                             (mask \o <<FALSE>>) \o [k \in 1..Len(c) |-> TRUE])
    ELSE [buffer |-> buf, added |-> mask]

\* the loop over i; buf is the buffer and mask marks its emplaced containers
RECURSIVE entities_loop(_, _, _, _)
entities_loop(es, i, buf, mask) ==
  IF i <= Len(es)
    THEN LET c == containers_at(es, i) IN
         entities_loop(es, i + 1,
                       (buf \o c) \o <<es[i]>>,
                       (mask \o [k \in 1..Len(c) |-> TRUE]) \o <<FALSE>>)
    ELSE [buffer |-> buf, added |-> mask]

RECURSIVE all_containers(_, _)
all_containers(es, i) ==
  IF i > Len(es) THEN <<>> ELSE containers_at(es, i) \o all_containers(es, i + 1)

process_entities_appended(es) ==
  LET c == all_containers(es, 1) IN
  [entities |-> IF Len(c) > 0 THEN es \o c ELSE es,
   buffer |-> es \o c,
   added |-> [k \in 1..Len(es) |-> FALSE] \o [k \in 1..Len(c) |-> TRUE]]

process_entities(es) ==
  LET r == entities_loop(es, 1, <<>>, <<>>) IN
  [entities |-> IF Len(r.buffer) > Len(es) THEN r.buffer ELSE es,
   buffer |-> r.buffer,
   added |-> r.added]

EntityTypes == {"pf", "ps", "td", "tm", "ty", "P"}

\* position right after the last entity predicted so far
NextFree == IF entities = <<>> THEN 0 ELSE EntityEnd(entities[Len(entities)])

InitCzech ==
  /\ window = 0
  /\ name = "CzechAddContainers"
  /\ IdleProc
  /\ IdleEnt
  /\ sentence = EmptySentence(0)
  /\ data = <<>>
  /\ status = "ready"
  /\ call = NoCall
  /\ steps = 0

\* the recognizer predicts one more entity, right of the previous ones
PredictEntity ==
  /\ call.kind = "none"
  /\ Len(entities) < MaxEntities
  /\ \E gap \in 0..1, len \in 1..2, t \in EntityTypes :
       entities' = Append(entities, named_entity(NextFree + gap, len, t))
  /\ UNCHANGED <<procVars, runVars, sentence, buffer, added, data, status, call, steps>>

ProcessEntities ==
  /\ call.kind = "none"
  /\ LET r == process_entities(entities) IN
       /\ entities' = r.entities
       /\ buffer' = r.buffer
       /\ added' = r.added
  /\ call' = [kind |-> "process_entities"]
  /\ steps' = steps + 1
  /\ UNCHANGED <<procVars, runVars, sentence, data, status>>

NextCzech == PredictEntity \/ ProcessEntities

SpecCzech == InitCzech /\ [][NextCzech]_vars

\* the containers of type t among out, each with the index of the original
\* entity it sits in front of
RECURSIVE AddedAt(_, _, _, _, _)
AddedAt(out, mask, t, k, orig) ==
  IF k > Len(out) THEN <<>>
  ELSE IF mask[k]
    THEN (IF out[k].type = t THEN <<[at |-> orig, entity |-> out[k]]>> ELSE <<>>)
           \o AddedAt(out, mask, t, k + 1, orig)
    ELSE AddedAt(out, mask, t, k + 1, orig + 1)

AllAbut(es, i, k) == \A m \in (i + 1)..k : Abuts(es, m)

\* i..j are pf, j+1..k are ps, all abutting, the run starts at i and ends at k
IsPRun(es, i, j, k) ==
  /\ i <= j /\ j < k /\ k <= Len(es)
  /\ \A m \in i..j : es[m].type = "pf"
  /\ \A m \in (j + 1)..k : es[m].type = "ps"
  /\ AllAbut(es, i, k)
  /\ ~(i > 1 /\ Abuts(es, i) /\ es[i - 1].type = "pf")
  /\ ~(k < Len(es) /\ Abuts(es, k + 1) /\ es[k + 1].type = "ps")

RECURSIVE ExpectedP(_, _)
ExpectedP(es, i) ==
  IF i > Len(es) THEN <<>>
  ELSE (IF \E j \in i..Len(es), k \in i..Len(es) : IsPRun(es, i, j, k)
          THEN LET k == CHOOSE k \in i..Len(es) : \E j \in i..Len(es) : IsPRun(es, i, j, k) IN
               <<[at |-> i, entity |-> named_entity(es[i].start, EntityEnd(es[k]) - es[i].start, "P")]>>
          ELSE <<>>) \o ExpectedP(es, i + 1)

TSpanEnd(es, i) ==
  IF /\ es[i].type = "td" /\ i < Len(es)
     /\ Abuts(es, i + 1) /\ es[i + 1].type = "tm"
    THEN (IF i + 2 <= Len(es) /\ Abuts(es, i + 2) /\ es[i + 2].type = "ty"
            THEN i + 2 ELSE i + 1)
  ELSE IF /\ es[i].type = "tm" /\ i < Len(es)
          /\ Abuts(es, i + 1) /\ es[i + 1].type = "ty"
          /\ ~(i > 1 /\ Abuts(es, i) /\ es[i - 1].type = "td")
    THEN i + 1
  ELSE 0

RECURSIVE ExpectedT(_, _)
ExpectedT(es, i) ==
  IF i > Len(es) THEN <<>>
  ELSE (IF TSpanEnd(es, i) # 0
          THEN <<[at |-> i, entity |-> named_entity(es[i].start,
                     EntityEnd(es[TSpanEnd(es, i)]) - es[i].start, "T")]>>
          ELSE <<>>) \o ExpectedT(es, i + 1)

\* C5: a T container is added exactly (a) at a td followed by an abutting
\* tm, spanning also an abutting ty after it, and (b) at a tm not preceded
\* by an abutting td and followed by an abutting ty; td tm ty in a row gives
\* one T over all three and none at the tm.
C5_TContainers ==
  [][ call'.kind = "process_entities" =>
        /\ AddedAt(entities', added', "T", 1, 1) = ExpectedT(entities, 1)
        /\ \A i \in 1..(Len(entities) - 2) :
             ( /\ entities[i].type = "td" /\ entities[i + 1].type = "tm"
               /\ entities[i + 2].type = "ty" /\ AllAbut(entities, i, i + 2) )
             => LET ts == AddedAt(entities', added', "T", 1, 1) IN
                \A n \in 1..Len(ts) :
                  /\ ts[n].at # i + 1
                  /\ ts[n].at = i =>
                       /\ ts[n].entity.length
                            = EntityEnd(entities[i + 2]) - entities[i].start
                       /\ \A n2 \in 1..Len(ts) : ts[n2].at = i => n2 = n ]_vars

\* td tm ty in a row got one T over the three
C5_Witness ==
  /\ call.kind = "process_entities"
  /\ Len(entities) = 4
  /\ added = <<TRUE, FALSE, FALSE, FALSE>>
  /\ entities[1].type = "T"
  /\ entities[2].type = "td" /\ entities[3].type = "tm" /\ entities[4].type = "ty"
  /\ entities[1].length = EntityEnd(entities[4]) - entities[2].start

RECURSIVE Originals(_, _, _)
Originals(out, mask, k) ==
  IF k > Len(out) THEN <<>>
  ELSE (IF mask[k] THEN <<>> ELSE <<out[k]>>) \o Originals(out, mask, k + 1)

\* C6: the output without the added containers is the input, in order;
\* every added container is immediately followed by the original entity
\* that triggered it (same start); with no container the list is unchanged.
C6_OriginalsKept ==
  [][ call'.kind = "process_entities" =>
        /\ Len(added') = Len(entities')
        /\ Originals(entities', added', 1) = entities
        /\ \A k \in 1..Len(entities') :
             added'[k] => /\ k < Len(entities')
                          /\ ~added'[k + 1]
                          /\ entities'[k + 1].start = entities'[k].start
                          /\ entities'[k + 1].type \in {"pf", "td", "tm"}
        /\ (\A k \in 1..Len(added') : ~added'[k]) => entities' = entities ]_vars

\* a container was added in front of an original that is not the first
C6_Witness ==
  /\ call.kind = "process_entities"
  /\ \E k \in 2..Len(entities) : added[k] /\ ~added[k - 1]

\* the input lists of at most n entities that are sorted by start and do
\* not overlap
RECURSIVE SortedInputs(_)
SortedInputs(n) ==
  IF n = 0 THEN {<<>>}
  ELSE LET S == SortedInputs(n - 1) IN
       S \cup { Append(es, named_entity((IF es = <<>> THEN 0 ELSE EntityEnd(es[Len(es)])) + gap,
                                        len, t)) :
                  es \in {x \in S : Len(x) = n - 1},
                  gap \in 0..1, len \in 1..2, t \in EntityTypes }

\* the list is sorted by start and its entities do not overlap
SortedNonOverlapping(es) == \A k \in 2..Len(es) : EntityEnd(es[k - 1]) <= es[k].start

\* some element has a smaller start than the element just before it
StartDescends(out) == \E k \in 2..Len(out) : out[k].start < out[k - 1].start

\* C12 as stated: there is an input list, sorted by start and
\* non-overlapping, for which some element of the list produced by
\* process_entities has a smaller start than the element just before it.
C12_AsStated ==
  call.kind = "process_entities" =>
    \E es \in SortedInputs(MaxEntities) : StartDescends(process_entities(es).entities)

\* C12 amended: for every input list that is sorted by start and
\* non-overlapping, the list produced by process_entities is sorted by
\* start: no element has a smaller start than the element just before it,
\* because a container is placed right before the entity that triggers it
\* and starts where that entity starts; the container is the longer of the
\* two.
C12_Amended ==
  [][ (call'.kind = "process_entities" /\ SortedNonOverlapping(entities)) =>
        /\ ~StartDescends(entities')
        /\ \A k \in 1..Len(entities') :
             added'[k] => /\ k < Len(entities')
                          /\ entities'[k].start = entities'[k + 1].start
                          /\ entities'[k].length > entities'[k + 1].length ]_vars

\* a container was placed between two originals: it starts after the
\* entity before it and where the entity after it starts
C12_Witness ==
  /\ call.kind = "process_entities"
  /\ Len(entities) >= 4
  /\ \E k \in 2..(Len(entities) - 1) :
       /\ added[k]
       /\ entities[k - 1].start < entities[k].start
       /\ entities[k].start = entities[k + 1].start
       /\ EntityEnd(entities[k]) > EntityEnd(entities[k + 1])

\* ------------------------------------------------------------------------
\* The interner of the base class (feature_processor::lookup)
\* ------------------------------------------------------------------------
\* map is a function from keys to base ids.  The empty key always yields
\* `window`; a known key yields its id; a new key is given the centre of
\* the next 2w+1 ids when total_features is passed (training) and the
\* unknown sentinel otherwise.  The result carries the updated table.
lookup(m, tf, win, key, training) ==
  IF key = <<>> THEN [map |-> m, total_features |-> tf, feature |-> win]
  ELSE IF key \in DOMAIN m THEN [map |-> m, total_features |-> tf, feature |-> m[key]]
  ELSE IF training
    THEN [map |-> m @@ (key :> (win + tf)),
          total_features |-> tf + 2 * win + 1,
          feature |-> win + tf]
  ELSE [map |-> m, total_features |-> tf, feature |-> ner_feature_unknown]

\* the state threaded through a process_sentence call
Run(s, m, tf) == [sentence |-> s, map |-> m, total_features |-> tf]

\* ------------------------------------------------------------------------
\* PreviousStage
\* ------------------------------------------------------------------------
bilou_type_unknown == 0 - 1
entity_type_unknown == 0 - 1
bilou_type_U == 4

HexDigits == <<"0", "1", "2", "3", "4", "5", "6", "7", "8", "9", "a", "b", "c", "d", "e", "f">>

\* for (; value; value >>= 4) str.push_back("0123456789abcdef"[value & 0xF])
RECURSIVE encode_nibbles(_, _)
encode_nibbles(str, value) ==
  IF value # 0
    THEN encode_nibbles(Append(str, HexDigits[(value % 16) + 1]), value \div 16)
    ELSE str

append_encoded(str, value) ==
  IF value < 0 THEN encode_nibbles(Append(str, "-"), 0 - value)
               ELSE encode_nibbles(str, value)

stage_key(st) == append_encoded(Append(append_encoded(<<>>, st.bilou), " "), st.entity)

previous_stage_token_around(r, win, i, training) ==
  IF r.sentence.previous_stage[i].bilou # bilou_type_unknown
    THEN LET l == lookup(r.map, r.total_features, win,
                         stage_key(r.sentence.previous_stage[i]), training) IN
         Run(apply_in_window(r.sentence, win, i, l.feature), l.map, l.total_features)
    ELSE r

\* the body of the loop of previous_stage::process_sentence
previous_stage_token(r, win, i, training) ==
  IF r.sentence.previous_stage[i].bilou # bilou_type_unknown
    THEN LET l == lookup(r.map, r.total_features, win,
                         stage_key(r.sentence.previous_stage[i]), training) IN
         Run(apply_in_range(r.sentence, win, i, l.feature, 1, win), l.map, l.total_features)
    ELSE r

RECURSIVE previous_stage_loop(_, _, _, _)
previous_stage_loop(r, win, i, training) ==
  IF i < r.sentence.size
    THEN previous_stage_loop(previous_stage_token(r, win, i, training), win, i + 1, training)
    ELSE r

previous_stage_process_sentence(s, m, tf, win, training) ==
  previous_stage_loop(Run(s, m, tf), win, 0, training)

\* the previous stage left a tag on some tokens: none, (B, 3), (U, 17), (O, unknown)
Stages == {NoStage, [bilou |-> 0, entity |-> 3], [bilou |-> 4, entity |-> 17],
           [bilou |-> 3, entity |-> entity_type_unknown]}

InitPrevious ==
  /\ window \in 0..MaxWindow
  /\ name = "PreviousStage"
  /\ IdleProc
  /\ IdleEnt
  /\ \E n \in 0..MaxTokens : \E st \in [0..(n - 1) -> Stages] :
       sentence = [EmptySentence(n) EXCEPT !.previous_stage = st]
  /\ data = <<>>
  /\ status = "ready"
  /\ call = NoCall
  /\ steps = 0

\* process_sentence with total_features passed (training) or null (tagging)
PreviousProcessSentence ==
  /\ steps < MaxCalls
  /\ \E training \in BOOLEAN :
       LET r == previous_stage_process_sentence(sentence, map, total_features, window, training) IN
         /\ sentence' = r.sentence
         /\ map' = r.map
         /\ total_features' = r.total_features
         /\ call' = [kind |-> "previous_stage", training |-> training]
  /\ steps' = steps + 1
  /\ UNCHANGED <<window, clusters, gazetteers_info, url, email, entVars, runVars, data, status>>

NextPrevious == PreviousProcessSentence

SpecPrevious == InitPrevious /\ [][NextPrevious]_vars

\* what seq2 has after its prefix seq1
Suffix(seq2, seq1) == SubSeq(seq2, Len(seq1) + 1, Len(seq2))
IsPrefix(seq1, seq2) == Len(seq1) <= Len(seq2) /\ SubSeq(seq2, 1, Len(seq1)) = seq1

\* base id of token i after the call: the id of its key, if it has one
StageBase(m, st) ==
  IF st.bilou = bilou_type_unknown THEN ner_feature_unknown
  ELSE IF stage_key(st) \in DOMAIN m THEN m[stage_key(st)]
  ELSE ner_feature_unknown

RECURSIVE ForwardFrom(_, _, _, _, _)
ForwardFrom(m, st, win, p, i) ==
  IF i >= p THEN <<>>
  ELSE (IF StageBase(m, st[i]) # ner_feature_unknown /\ p <= i + win
          THEN <<StageBase(m, st[i]) + (p - i)>> ELSE <<>>)
         \o ForwardFrom(m, st, win, p, i + 1)

\* C7: PreviousStage appends, for a token i with a known bilou and base id
\* f, the id f + (p - i) at the positions i+1 <= p <= min(size-1, i+w) and
\* nowhere else: nothing at i, nothing left of i, nothing for tokens with an
\* unknown bilou.
C7_ForwardOnly ==
  [][ call'.kind = "previous_stage" =>
        \A p \in 0..(sentence.size - 1) :
          /\ IsPrefix(sentence.features[p], sentence'.features[p])
          /\ Suffix(sentence'.features[p], sentence.features[p])
               = ForwardFrom(map', sentence.previous_stage, window, p, 0) ]_vars

\* a tagged first token reached the token right of it and not itself
C7_Witness ==
  /\ call.kind = "previous_stage"
  /\ sentence.size >= 2
  /\ sentence.previous_stage[0].bilou # bilou_type_unknown
  /\ sentence.features[0] = <<>>
  /\ sentence.features[1] # <<>>

\* ------------------------------------------------------------------------
\* URLEmailDetector
\* ------------------------------------------------------------------------
\* words[i].detect stands for url_detector::detect(words[i].form), an
\* external classifier: NO_URL, URL or EMAIL.
bilou_slot(p, e) == [probability |-> p, entity |-> e]

url_email_token_always(s, i, u, e) ==
  LET type == s.words[i].detect IN
  IF type = "NO_URL"
    THEN s
    ELSE [s EXCEPT !.probabilities[i] =
            [local |-> [b \in 0..4 |->
                          IF b = bilou_type_U
                            THEN bilou_slot("1.", IF type = "EMAIL" THEN e ELSE u)
                            ELSE bilou_slot("0.", entity_type_unknown)],
             local_filled |-> TRUE]]

\* the body of the loop of url_email_detector::process_sentence
url_email_token(s, i, u, e) ==
  LET type == s.words[i].detect IN
  IF type = "NO_URL" \/ s.probabilities[i].local_filled
    THEN s
    ELSE [s EXCEPT !.probabilities[i] =
            [local |-> [b \in 0..4 |->
                          IF b = bilou_type_U
                            THEN bilou_slot("1.", IF type = "EMAIL" THEN e ELSE u)
                            ELSE bilou_slot("0.", entity_type_unknown)],
             local_filled |-> TRUE]]

RECURSIVE url_email_loop(_, _, _, _)
url_email_loop(s, i, u, e) ==
  IF i < s.size THEN url_email_loop(url_email_token(s, i, u, e), i + 1, u, e) ELSE s

url_email_process_sentence(s, u, e) == url_email_loop(s, 0, u, e)

\* local probabilities a token can carry before the detector runs: fresh,
\* already filled by an earlier stage, or stale and not filled
FilledProb ==
  [local |-> [b \in 0..4 |-> IF b = 0 THEN bilou_slot("0.7", 2) ELSE bilou_slot("0.1", 2)],
   local_filled |-> TRUE]
StaleProb ==
  [local |-> [b \in 0..4 |-> IF b = 1 THEN bilou_slot("0.5", 1) ELSE bilou_slot("0.", entity_type_unknown)],
   local_filled |-> FALSE]
Probs == {NoProb, FilledProb, StaleProb}
Detections == {"NO_URL", "URL", "EMAIL"}

InitUrl ==
  /\ window \in 0..1
  /\ name = "URLEmailDetector"
  /\ IdleProc
  /\ IdleEnt
  /\ \E n \in 0..MaxTokens :
       \E d \in [0..(n - 1) -> Detections], pr \in [0..(n - 1) -> Probs] :
         sentence = [EmptySentence(n) EXCEPT
                       !.words = [p \in 0..(n - 1) |-> [NoWord EXCEPT !.detect = d[p]]],
                       !.probabilities = pr]
  /\ data = <<>>
  /\ status = "new"
  /\ call = NoCall
  /\ steps = 0

\* parse: exactly two arguments, each turned into an entity type by the
\* entity map; u and e are what entities.parse returns for them
UrlParse ==
  /\ name = "URLEmailDetector"
  /\ status = "new"
  /\ \E nargs \in 1..3, u \in {0, 1, entity_type_unknown}, e \in {0, 1, entity_type_unknown} :
       IF nargs # 2
         THEN /\ status' = "failed"
              /\ UNCHANGED <<url, email>>
         ELSE /\ url' = u
              /\ email' = e
              /\ status' = IF u = entity_type_unknown \/ e = entity_type_unknown
                             THEN "failed" ELSE "ready"
  /\ call' = [kind |-> "parse"]
  /\ UNCHANGED <<window, total_features, map, clusters, gazetteers_info, sentence,
                 entVars, runVars, data, steps>>

UrlProcessSentence ==
  /\ status = "ready"
  /\ steps < MaxCalls
  /\ sentence' = url_email_process_sentence(sentence, url, email)
  /\ call' = [kind |-> "url_email"]
  /\ steps' = steps + 1
  /\ UNCHANGED <<procVars, entVars, runVars, data, status>>

NextUrl == UrlParse \/ UrlProcessSentence

SpecUrl == InitUrl /\ [][NextUrl]_vars

\* C8: a token with a detector hit and local_filled false gets all five
\* slots (0, unknown) except U = (1, email type on EMAIL, url type on URL)
\* and local_filled true; every other token keeps its probabilities and
\* local_filled; features are never written.
C8_UrlEmailFrame ==
  [][ call'.kind = "url_email" =>
        /\ sentence'.features = sentence.features
        /\ \A i \in 0..(sentence.size - 1) :
             IF /\ sentence.words[i].detect # "NO_URL"
                /\ ~sentence.probabilities[i].local_filled
               THEN /\ sentence'.probabilities[i].local_filled
                    /\ \A b \in 0..4 :
                         sentence'.probabilities[i].local[b] =
                           IF b = 4
                             THEN [probability |-> "1.",
                                   entity |-> IF sentence.words[i].detect = "EMAIL"
                                                THEN email ELSE url]
                             ELSE [probability |-> "0.", entity |-> entity_type_unknown]
               ELSE sentence'.probabilities[i] = sentence.probabilities[i] ]_vars

\* an e-mail token was given the unit label while a token filled earlier and
\* detected as a URL kept its probabilities
C8_Witness ==
  /\ call.kind = "url_email"
  /\ url # email
  /\ \E i, k \in 0..(sentence.size - 1) :
       /\ sentence.words[i].detect = "EMAIL"
       /\ sentence.probabilities[i].local[4] = [probability |-> "1.", entity |-> email]
       /\ sentence.probabilities[i].local[1].probability = "0."
       /\ sentence.words[k].detect = "URL"
       /\ sentence.probabilities[k] = FilledProb

\* ------------------------------------------------------------------------
\* NumericTimeValue
\* ------------------------------------------------------------------------
Digits == {"0", "1", "2", "3", "4", "5", "6", "7", "8", "9"}
DigitValue(c) == CHOOSE d \in 0..9 : HexDigits[d + 1] = c

\* for (...; *form; form++) { if (*form < '0' || *form > '9') break;
\*                            digit = true; num = num * 10 + *form - '0'; }
\* The forms of the model have at most five digits, so num never wraps.
RECURSIVE scan_digits(_, _, _, _)
scan_digits(form, pos, num, digit) ==
  IF pos <= Len(form) /\ form[pos] \in Digits
    THEN scan_digits(form, pos + 1, num * 10 + DigitValue(form[pos]), TRUE)
    ELSE [pos |-> pos, num |-> num, digit |-> digit]

\* lookups of the six keys, in the order of the code
RECURSIVE lookup_all(_, _, _, _, _, _, _)
lookup_all(m, tf, win, keys, k, training, acc) ==
  IF k > Len(keys) THEN [map |-> m, total_features |-> tf, features |-> acc]
  ELSE LET l == lookup(m, tf, win, <<keys[k]>>, training) IN
       lookup_all(l.map, l.total_features, win, keys, k + 1, training,
                  Append(acc, l.feature))

NumericKeys == <<"H", "M", "t", "d", "m", "y">>

apply_if(cond, s, win, i, f) == IF cond THEN apply_in_window(s, win, i, f) ELSE s

\* the five range tests of a token that is a number
number_features(s, win, i, num, f) ==
  LET s1 == apply_if(num < 24, s, win, i, f[1])
      s2 == apply_if(num < 60, s1, win, i, f[2])
      s3 == apply_if(num >= 1 /\ num <= 31, s2, win, i, f[4])
      s4 == apply_if(num >= 1 /\ num <= 12, s3, win, i, f[5])
  IN  apply_if(num >= 1000 /\ num <= 2200, s4, win, i, f[6])

number_time_token_lead(s, win, i, f) ==
  LET form == s.words[i].form
      a == scan_digits(form, 1, 0, FALSE)
      s1 == IF a.digit
              THEN number_features(s, win, i, a.num, f)
              ELSE s
  IN  IF /\ a.digit /\ a.num < 24
         /\ a.pos <= Len(form) /\ form[a.pos] \in {".", ":"}
        THEN LET b == scan_digits(form, a.pos + 1, 0, FALSE) IN
             apply_if(b.digit /\ b.pos > Len(form) /\ b.num < 60, s1, win, i, f[3])
        ELSE s1

\* the body of the loop of number_time_value::process_sentence; f holds the
\* ids of hour, minute, time, day, month, year
number_time_token(s, win, i, f) ==
  LET form == s.words[i].form
      a == scan_digits(form, 1, 0, FALSE)
      s1 == IF a.digit /\ a.pos > Len(form)
              THEN number_features(s, win, i, a.num, f)
              ELSE s
  IN  IF /\ a.digit /\ a.num < 24
         /\ a.pos <= Len(form) /\ form[a.pos] \in {".", ":"}
        THEN LET b == scan_digits(form, a.pos + 1, 0, FALSE) IN
             apply_if(b.digit /\ b.pos > Len(form) /\ b.num < 60, s1, win, i, f[3])
        ELSE s1

RECURSIVE number_time_loop(_, _, _, _)
number_time_loop(s, win, i, f) ==
  IF i < s.size THEN number_time_loop(number_time_token(s, win, i, f), win, i + 1, f) ELSE s

number_time_process_sentence(s, m, tf, win, training) ==
  LET l == lookup_all(m, tf, win, NumericKeys, 1, training, <<>>) IN
  Run(number_time_loop(s, win, 0, l.features), l.map, l.total_features)

ScenarioForms ==
  << <<"7">>, <<"3", "0">>, <<"1", "2", ":", "4", "5">>, <<"1", "9", "9", "9">>,
     <<"2", "3", "0", "0">>, <<"1", "3", ".", "7", "0">> >>

Forms ==
  { ScenarioForms[k] : k \in 1..6 } \cup
  { <<"0">>, <<"2", "4">>, <<"6", "0">>, <<"1", "2", ":">>, <<"1", ":", "5", "x">>,
    <<"2", "4", ":", "0", "0">>, <<"x">>, <<>> }

SentenceOfForms(fs) ==
  [EmptySentence(Len(fs)) EXCEPT
     !.words = [p \in 0..(Len(fs) - 1) |-> [NoWord EXCEPT !.form = fs[p + 1]]]]

InitNumeric ==
  /\ window \in 0..MaxWindow
  /\ name = "NumericTimeValue"
  /\ IdleProc
  /\ IdleEnt
  /\ \/ sentence = SentenceOfForms(ScenarioForms)
     \/ \E n \in 0..MaxNumTokens : \E fs \in [1..n -> Forms] :
          sentence = SentenceOfForms(fs)
  /\ data = <<>>
  /\ status = "ready"
  /\ call = NoCall
  /\ steps = 0

NumericProcessSentence ==
  /\ steps < MaxCalls
  /\ \E training \in BOOLEAN :
       LET r == number_time_process_sentence(sentence, map, total_features, window, training) IN
         /\ sentence' = r.sentence
         /\ map' = r.map
         /\ total_features' = r.total_features
         /\ call' = [kind |-> "numeric", training |-> training]
  /\ steps' = steps + 1
  /\ UNCHANGED <<window, clusters, gazetteers_info, url, email, entVars, runVars, data, status>>

NextNumeric == NumericProcessSentence

SpecNumeric == InitNumeric /\ [][NextNumeric]_vars

\* the multiset of the elements of a sequence
BagOf(seq) ==
  [v \in {seq[k] : k \in DOMAIN seq} |-> Cardinality({k \in DOMAIN seq : seq[k] = v})]

\* ids that a list of (centre, key) emissions puts on position p
RECURSIVE EmittedAt(_, _, _, _, _)
EmittedAt(m, win, em, k, p) ==
  IF k > Len(em) THEN <<>>
  ELSE (IF em[k][1] - win <= p /\ p <= em[k][1] + win
          THEN <<m[<<em[k][2]>>] + (p - em[k][1])>> ELSE <<>>)
         \o EmittedAt(m, win, em, k + 1, p)

EmitsExactly(em) ==
  ( /\ call'.kind = "numeric"
    /\ sentence.words = SentenceOfForms(ScenarioForms).words
    /\ \A k \in 1..6 : <<NumericKeys[k]>> \in DOMAIN map' )
  => \A p \in 0..5 :
       /\ IsPrefix(sentence.features[p], sentence'.features[p])
       /\ BagOf(Suffix(sentence'.features[p], sentence.features[p]))
            = BagOf(EmittedAt(map', window, em, 1, p))

\* C10 as stated: on ["7","30","12:45","1999","2300","13.70"] the windows
\* carry hour+minute+day+month at 0, minute+day at 1, hour+minute+day+time
\* at 2, day+month+year at 3, nothing at 4, hour+day+month at 5.
C10_AsStated ==
  [][ EmitsExactly(<< <<0, "H">>, <<0, "M">>, <<0, "d">>, <<0, "m">>,
                      <<1, "M">>, <<1, "d">>,
                      <<2, "H">>, <<2, "M">>, <<2, "d">>, <<2, "t">>,
                      <<3, "d">>, <<3, "m">>, <<3, "y">>,
                      <<5, "H">>, <<5, "d">>, <<5, "m">> >>) ]_vars

\* C10 amended: on the same forms the windows carry hour+minute+day+month
\* at 0, minute+day at 1, only time at 2, only year at 3 and nothing at 4
\* and 5.
C10_Amended ==
  [][ EmitsExactly(<< <<0, "H">>, <<0, "M">>, <<0, "d">>, <<0, "m">>,
                      <<1, "M">>, <<1, "d">>,
                      <<2, "t">>,
                      <<3, "y">> >>) ]_vars

\* the six forms were processed with all six features known
C10_Witness ==
  /\ call.kind = "numeric"
  /\ sentence.words = SentenceOfForms(ScenarioForms).words
  /\ \A k \in 1..6 : <<NumericKeys[k]>> \in DOMAIN map
  /\ window = 2
  /\ \E k \in 1..Len(sentence.features[2]) : sentence.features[2][k] = map[<<"t">>]
  /\ sentence.features[5] = <<map[<<"y">>] + 2>>

\* ------------------------------------------------------------------------
\* Gazetteers
\* ------------------------------------------------------------------------
gaz_G == 0
gaz_U == 1
gaz_B == 2
gaz_L == 3
gaz_I == 4

\* utils/split: the pieces of text between the separators, none for the
\* empty text
RECURSIVE split_from(_, _, _, _, _)
split_from(text, sep, pos, cur, acc) ==
  IF pos > Len(text) THEN Append(acc, cur)
  ELSE IF text[pos] = sep THEN split_from(text, sep, pos + 1, <<>>, Append(acc, cur))
  ELSE split_from(text, sep, pos + 1, Append(cur, text[pos]), acc)

split(text, sep) == IF text = <<>> THEN <<>> ELSE split_from(text, sep, 1, <<>>, <<>>)

\* split on ' ' and erase the empty tokens
NonEmpty(t) == t # <<>>
line_tokens(line) == SelectSeq(split(line, " "), NonEmpty)

gazetteer_info == [features |-> <<>>, prefix_of_longer |-> FALSE]

InSeq(v, seq) == \E k \in 1..Len(seq) : seq[k] = v

\* one round of the loop over the tokens of a line: gazetteer is the prefix
\* built so far, last tells whether it is the whole phrase
add_prefix(g, win, gazetteer, last) ==
  LET known == gazetteer \in DOMAIN g.map
      m == IF known THEN g.map ELSE g.map @@ (gazetteer :> Len(g.info))
      idx == m[gazetteer]
      info1 == IF idx = Len(g.info) THEN Append(g.info, gazetteer_info) ELSE g.info
      info2 == IF ~last
                 THEN [info1 EXCEPT ![idx + 1].prefix_of_longer = TRUE]
                 ELSE IF ~InSeq(g.total_features + win, info1[idx + 1].features)
                   THEN [info1 EXCEPT ![idx + 1].features = Append(@, g.total_features + win)]
                   ELSE info1
  IN  [g EXCEPT !.map = m, !.info = info2]

RECURSIVE line_loop(_, _, _, _, _)
line_loop(g, win, tokens, i, gazetteer) ==
  IF i > Len(tokens) THEN g
  ELSE LET gz == (IF i > 1 THEN Append(gazetteer, " ") ELSE gazetteer) \o tokens[i] IN
       line_loop(add_prefix(g, win, gz, i = Len(tokens)), win, tokens, i + 1, gz)

RECURSIVE file_loop(_, _, _, _)
file_loop(g, win, lines, k) ==
  IF k > Len(lines) THEN g
  ELSE LET tokens == line_tokens(lines[k])
           g1 == [g EXCEPT !.longest = IF Len(tokens) > @ THEN Len(tokens) ELSE @]
       IN  file_loop(line_loop(g1, win, tokens, 1, <<>>), win, lines, k + 1)

reserved_short(win, longest) ==
  (2 * win + 1) * (IF longest = 0 THEN 0 ELSE IF longest = 1 THEN gaz_U + 1 ELSE gaz_L + 1)

\* the ids reserved for a file whose longest phrase has `longest` tokens
reserved(win, longest) ==
  (2 * win + 1) * (IF longest = 0 THEN 0
                   ELSE IF longest = 1 THEN gaz_U + 1
                   ELSE IF longest = 2 THEN gaz_L + 1
                   ELSE gaz_I + 1)

\* an argument names a file that opens, with its lines, or one that does not
File(lines) == [is_open |-> TRUE, lines |-> lines]
NoFile == [is_open |-> FALSE, lines |-> <<>>]

\* one round of the loop over the arguments: a file that cannot be opened
\* ends the parse with false, and nothing is done after that
parse_file(g, win, file) ==
  IF ~g.ok THEN g
  ELSE IF file = NoFile THEN [g EXCEPT !.ok = FALSE]
  ELSE LET g1 == file_loop([g EXCEPT !.longest = 0], win, file.lines, 1)
           tf == g1.total_features + reserved(win, g1.longest)
       IN  [g1 EXCEPT !.total_features = tf,
                      !.bands = Append(@, [from |-> g1.total_features, to |-> tf])]

\* the rounds lo..hi in order; the range is halved only to keep the
\* evaluation shallow
RECURSIVE args_loop(_, _, _, _, _)
args_loop(g, win, args, lo, hi) ==
  IF lo > hi THEN g
  ELSE IF lo = hi THEN parse_file(g, win, args[lo])
  ELSE LET mid == (lo + hi) \div 2
           first == args_loop(g, win, args, lo, mid)
       IN  IF first.ok THEN args_loop(first, win, args, mid + 1, hi) ELSE first

gazetteers_parse(m, tf, win, args) ==
  args_loop([map |-> m, info |-> <<>>, total_features |-> tf, longest |-> 0,
             bands |-> <<>>, ok |-> TRUE], win, args, 1, Len(args))

\* for (auto&& feature : features) { apply G; apply role } at centre g
RECURSIVE emit_features(_, _, _, _, _, _)
emit_features(s, win, fs, k, g, role) ==
  IF k > Len(fs) THEN s
  ELSE emit_features(
         apply_in_window(apply_in_window(s, win, g, fs[k] + gaz_G * (2 * win + 1)),
                         win, g, fs[k] + role * (2 * win + 1)),
         win, fs, k + 1, g, role)

span_role_no_inner(g, i, j) == IF g = i THEN gaz_B ELSE gaz_L

span_role(g, i, j) == IF g = i THEN gaz_B ELSE IF g = j THEN gaz_L ELSE gaz_I

\* for (auto&& feature : features) for (g = i; g <= j; g++) { ... }
RECURSIVE emit_span(_, _, _, _, _, _, _)
emit_span(s, win, fs, k, g, i, j) ==
  IF k > Len(fs) THEN s
  ELSE IF g > j THEN emit_span(s, win, fs, k + 1, i, i, j)
  ELSE emit_span(
         apply_in_window(apply_in_window(s, win, g, fs[k] + gaz_G * (2 * win + 1)),
                         win, g, fs[k] + span_role(g, i, j) * (2 * win + 1)),
         win, fs, k, g + 1, i, j)

\* the extension loop over j; it is the index found last, buf the buffer
RECURSIVE extend_loop(_, _, _, _, _, _, _, _)
extend_loop(s, m, info, win, i, j, it, buf) ==
  IF info[it + 1].prefix_of_longer /\ j < s.size
    THEN LET b1 == Append(IF j = i + 1 THEN s.words[i].raw_lemma ELSE buf, " ")
                     \o s.words[j].raw_lemma IN
         IF b1 \notin DOMAIN m THEN s
         ELSE extend_loop(emit_span(s, win, info[m[b1] + 1].features, 1, i, i, j),
                          m, info, win, i, j + 1, m[b1], b1)
    ELSE s

RECURSIVE gazetteers_loop(_, _, _, _, _)
gazetteers_loop(s, m, info, win, i) ==
  IF i >= s.size THEN s
  ELSE IF s.words[i].raw_lemma \notin DOMAIN m THEN gazetteers_loop(s, m, info, win, i + 1)
  ELSE LET it == m[s.words[i].raw_lemma]
           s1 == emit_features(s, win, info[it + 1].features, 1, i, gaz_U)
       IN  gazetteers_loop(extend_loop(s1, m, info, win, i, i + 1, it, <<>>),
                           m, info, win, i + 1)

gazetteers_process_sentence(s, m, info, win) == gazetteers_loop(s, m, info, win, 0)

\* ------------------------------------------------------------------------
\* BrownClusters
\* ------------------------------------------------------------------------
\* string::npos, the length of the implicit whole-string prefix
npos == 0 - 1

\* cluster.substr(0, substring)
substr(str, n) == IF n = npos \/ n >= Len(str) THEN str ELSE SubSeq(str, 1, n)

\* the loop over substrings for a new cluster: feats is clusters.back()
RECURSIVE prefixes_loop(_, _, _, _, _, _, _)
prefixes_loop(pm, feats, tf, win, cluster, substrings, k) ==
  IF k > Len(substrings) THEN [prefixes_map |-> pm, features |-> feats]
  ELSE IF substrings[k] = npos \/ substrings[k] < Len(cluster)
    THEN LET key == substr(cluster, substrings[k])
             pm1 == IF key \in DOMAIN pm THEN pm
                    ELSE pm @@ (key :> (tf + (2 * win + 1) * Cardinality(DOMAIN pm) + win))
         IN  prefixes_loop(pm1, Append(feats, pm1[key]), tf, win, cluster, substrings, k + 1)
  ELSE prefixes_loop(pm, feats, tf, win, cluster, substrings, k + 1)

RECURSIVE brown_lines(_, _, _, _, _, _)
brown_lines(b, tf, win, lines, substrings, k) ==
  IF k > Len(lines) THEN b
  ELSE LET tokens == split(lines[k], "\t") IN
       IF Len(tokens) # 2 THEN [b EXCEPT !.ok = FALSE]
       ELSE LET cluster == tokens[1]
                form == tokens[2]
                fresh == cluster \notin DOMAIN b.cluster_map
                pl == prefixes_loop(b.prefixes_map, <<>>, tf, win, cluster, substrings, 1)
                b1 == IF fresh
                        THEN [b EXCEPT !.clusters = Append(@, pl.features),
                                       !.prefixes_map = pl.prefixes_map,
                                       !.cluster_map = @ @@ (cluster :> Len(b.clusters))]
                        ELSE b
            IN  IF form \in DOMAIN b1.map THEN [b1 EXCEPT !.ok = FALSE]
                ELSE brown_lines([b1 EXCEPT !.map = @ @@ (form :> b1.cluster_map[cluster])],
                                 tf, win, lines, substrings, k + 1)

\* *total_features += (2*window + 1) * prefixes_map.size()
brown_total(tf, win, pm) == tf + (2 * win + 1) * Cardinality(DOMAIN pm)

\* args: the cluster file and the prefix lengths after it
brown_clusters_parse(m, cl0, tf, win, args) ==
  LET fail(cl) == [map |-> m, clusters |-> cl, total_features |-> tf, ok |-> FALSE] IN
  IF Len(args) < 1 \/ args[1] = NoFile THEN fail(cl0)
  ELSE IF \E k \in 2..Len(args) : args[k] <= 0 THEN fail(cl0)
  ELSE LET substrings == <<npos>> \o SubSeq(args, 2, Len(args))
           b == brown_lines([map |-> m, clusters |-> <<>>, cluster_map |-> <<>>,
                             prefixes_map |-> <<>>, ok |-> TRUE],
                            tf, win, args[1].lines, substrings, 1)
       IN  IF b.ok
             THEN [map |-> b.map, clusters |-> b.clusters,
                   total_features |-> brown_total(tf, win, b.prefixes_map), ok |-> TRUE]
             ELSE [map |-> b.map, clusters |-> b.clusters, total_features |-> tf, ok |-> FALSE]

RECURSIVE cluster_features(_, _, _, _, _)
cluster_features(s, win, i, cluster, k) ==
  IF k > Len(cluster) THEN s
  ELSE cluster_features(apply_in_window(s, win, i, cluster[k]), win, i, cluster, k + 1)

RECURSIVE brown_loop(_, _, _, _, _)
brown_loop(s, m, cl, win, i) ==
  IF i >= s.size THEN s
  ELSE IF s.words[i].raw_lemma \in DOMAIN m
    THEN brown_loop(cluster_features(s, win, i, cl[m[s.words[i].raw_lemma] + 1], 1),
                    m, cl, win, i + 1)
  ELSE brown_loop(s, m, cl, win, i + 1)

brown_clusters_process_sentence(s, m, cl, win) == brown_loop(s, m, cl, win, 0)

\* ------------------------------------------------------------------------
\* SpecFeatures: Gazetteers and BrownClusters parsed, then run on sentences
\* ------------------------------------------------------------------------
GazFileA == << <<"a">> >>
GazFileAB == << <<"a", " ", "b">>, <<"b">> >>
GazFileABC == << <<"a", " ", "b", " ", "c">>, <<"a", " ", "b">> >>
GazFileSpaces == << <<" ", "b", " ", " ", "c", " ">>, <<>>, <<"a">> >>
GazFileCity == << <<"a", " ", "b">>, <<"a", " ", "b", " ", "c">>, <<"b">> >>
GazFiles == {File(<<>>), File(GazFileA), File(GazFileAB), File(GazFileABC),
             File(GazFileSpaces), File(GazFileCity), NoFile}

BrownFileTwo == << <<"1", "1", "0", "\t", "a">>, <<"1", "1", "\t", "b">>, <<"1", "1", "0", "\t", "c">> >>
BrownFileOne == << <<"1", "0", "\t", "a">>, <<"1", "\t", "b">> >>
BrownFileTwice == << <<"1", "\t", "a">>, <<"0", "\t", "a">> >>
BrownFileBad == << <<"1", "\t", "a">>, <<"0">> >>
BrownFiles == {File(<<>>), File(BrownFileTwo), File(BrownFileOne), File(BrownFileTwice),
               File(BrownFileBad), NoFile}

Lemmas == { <<"a">>, <<"b">>, <<"c">>, <<"a", " ", "b">> }

SeqsUpTo(S, n) == UNION { [1..k -> S] : k \in 0..n }

GazArgs == SeqsUpTo(GazFiles, MaxFiles)
BrownArgs == { <<f>> \o lens : f \in BrownFiles, lens \in SeqsUpTo({0, 1, 2}, 2) } \cup {<<>>}

InitProcessor(names) ==
  /\ window \in 0..MaxWindow
  /\ name \in names
  /\ total_features \in {0, 3}
  /\ map = <<>>
  /\ clusters = <<>>
  /\ gazetteers_info = <<>>
  /\ url = 0 - 1
  /\ email = 0 - 1
  /\ parsed = NoParse
  /\ IdleEnt
  /\ sentence = EmptySentence(0)
  /\ data = <<>>
  /\ status = "new"
  /\ call = NoCall
  /\ steps = 0

InitFeatures == InitProcessor({"Gazetteers", "BrownClusters"})

GazParseOf(argsets) ==
  /\ name = "Gazetteers"
  /\ status = "new"
  /\ \E args \in argsets :
       LET g == gazetteers_parse(map, total_features, window, args) IN
         /\ map' = g.map
         /\ gazetteers_info' = g.info
         /\ total_features' = g.total_features
         /\ status' = IF g.ok THEN "ready" ELSE "failed"
         /\ parsed' = [t0 |-> total_features, args |-> args, bands |-> g.bands]
  /\ call' = [kind |-> "parse"]
  /\ UNCHANGED <<window, clusters, url, email, name, sentence, entVars, data, steps>>

GazParse == GazParseOf(GazArgs)

BrownParse ==
  /\ name = "BrownClusters"
  /\ status = "new"
  /\ \E args \in BrownArgs :
       LET b == brown_clusters_parse(map, clusters, total_features, window, args) IN
         /\ map' = b.map
         /\ clusters' = b.clusters
         /\ total_features' = b.total_features
         /\ status' = IF b.ok THEN "ready" ELSE "failed"
         /\ parsed' = [t0 |-> total_features, args |-> args, bands |-> <<>>]
  /\ call' = [kind |-> "parse"]
  /\ UNCHANGED <<window, gazetteers_info, url, email, name, sentence, entVars, data, steps>>

SentenceOfLemmas(ls) ==
  [EmptySentence(Len(ls)) EXCEPT
     !.words = [p \in 0..(Len(ls) - 1) |-> [NoWord EXCEPT !.raw_lemma = ls[p + 1]]]]

\* a new sentence is given to process_sentence
GazProcessSentence ==
  /\ name = "Gazetteers"
  /\ status = "ready"
  /\ steps < 1
  /\ \E ls \in SeqsUpTo(Lemmas, MaxLemmas) :
       sentence' = gazetteers_process_sentence(SentenceOfLemmas(ls), map, gazetteers_info, window)
  /\ call' = [kind |-> "gazetteers"]
  /\ steps' = steps + 1
  /\ UNCHANGED <<procVars, entVars, runVars, data, status>>

BrownProcessSentence ==
  /\ name = "BrownClusters"
  /\ status = "ready"
  /\ steps < 1
  /\ \E ls \in SeqsUpTo(Lemmas, MaxLemmas) :
       sentence' = brown_clusters_process_sentence(SentenceOfLemmas(ls), map, clusters, window)
  /\ call' = [kind |-> "brown_clusters"]
  /\ steps' = steps + 1
  /\ UNCHANGED <<procVars, entVars, runVars, data, status>>

NextFeatures == GazParse \/ BrownParse \/ GazProcessSentence \/ BrownProcessSentence

SpecFeatures == InitFeatures /\ [][NextFeatures]_vars

\* the single-space join of raw_lemma[i..j]
RECURSIVE JoinLemmas(_, _, _)
JoinLemmas(s, i, j) ==
  IF j = i THEN s.words[i].raw_lemma
  ELSE Append(JoinLemmas(s, i, j - 1), " ") \o s.words[j].raw_lemma

RECURSIVE JoinTokens(_, _)
JoinTokens(tokens, n) ==
  IF n = 0 THEN <<>>
  ELSE IF n = 1 THEN tokens[1]
  ELSE Append(JoinTokens(tokens, n - 1), " ") \o tokens[n]

\* the phrases a gazetteer file lists: its lines with at least one token
PhrasesOfFile(file) ==
  { JoinTokens(line_tokens(file.lines[k]), Len(line_tokens(file.lines[k]))) :
      k \in { n \in 1..Len(file.lines) : line_tokens(file.lines[n]) # <<>> } }

EmittedIds(s) ==
  UNION { { s.features[p][k] : k \in 1..Len(s.features[p]) } : p \in 0..(s.size - 1) }

Spans(s) == { <<i, j>> \in (0..(s.size - 1)) \X (0..(s.size - 1)) : i <= j }

\* C2: after a successful parse of Gazetteers or BrownClusters that moved
\* total_features from T0 to T1, every id appended by process_sentence lies
\* in [T0, T1); a Gazetteers id lies within the 2, 4 or 5 bands of 2w+1 ids
\* reserved for a file that lists a phrase matched in the sentence.
C2_IdsInReservedRange ==
  (status = "ready" /\ call.kind \in {"gazetteers", "brown_clusters"}) =>
    LET ids == EmittedIds(sentence)
        joins == { JoinLemmas(sentence, sp[1], sp[2]) : sp \in Spans(sentence) }
        files == { n \in 1..Len(parsed.bands) : PhrasesOfFile(parsed.args[n]) \cap joins # {} }
    IN  /\ \A x \in ids : parsed.t0 <= x /\ x < total_features
        /\ name = "Gazetteers" =>
             \A x \in ids :
               \E n \in files :
                 /\ parsed.bands[n].from <= x /\ x < parsed.bands[n].to
                 /\ parsed.bands[n].to - parsed.bands[n].from
                      \in { 2 * (2 * window + 1), 4 * (2 * window + 1), 5 * (2 * window + 1) }

\* an inner token of a three-token phrase of the first of two files got an
\* id of the fifth band of that file
C2_Witness ==
  /\ status = "ready"
  /\ call.kind = "gazetteers"
  /\ Len(parsed.bands) = 2
  /\ parsed.bands[2].to > parsed.bands[2].from
  /\ \E x \in EmittedIds(sentence) :
       /\ parsed.bands[1].from + gaz_I * (2 * window + 1) <= x
       /\ x < parsed.bands[1].to

\* base features stored for a phrase
StoredFeatures(m, info, phrase) ==
  IF phrase \in DOMAIN m THEN info[m[phrase] + 1].features ELSE <<>>

\* the full phrases of the parsed files
FullPhrases == UNION { PhrasesOfFile(parsed.args[n]) : n \in 1..Len(parsed.args) }

\* role of centre g in the span sp, generic (0) or role-coded (1)
EmissionRole(sp, g, coded) ==
  IF coded = 0 THEN gaz_G
  ELSE IF sp[2] = sp[1] THEN gaz_U
  ELSE IF g = sp[1] THEN gaz_B
  ELSE IF g = sp[2] THEN gaz_L
  ELSE gaz_I

CountIn(seq, v) == Cardinality({ k \in 1..Len(seq) : seq[k] = v })

\* C3: Gazetteers.process_sentence emits, for every span i..j whose
\* single-space join is a full phrase of a parsed file and every base
\* feature f stored for it, f + G*(2w+1) and f + role*(2w+1) in the window
\* centred at every g in [i, j] (role U when j = i, else B at i, L at j, I
\* between), and nothing else.
C3_RoleCodedMatches ==
  (status = "ready" /\ call.kind = "gazetteers") =>
    LET full == FullPhrases
        matched == { sp \in Spans(sentence) : JoinLemmas(sentence, sp[1], sp[2]) \in full }
        F == [sp \in matched |->
                StoredFeatures(map, gazetteers_info, JoinLemmas(sentence, sp[1], sp[2]))]
        E == UNION { { <<sp, k, g, coded>> :
                         k \in 1..Len(F[sp]), g \in sp[1]..sp[2], coded \in {0, 1} } :
                     sp \in matched }
        Id(e, p) == F[e[1]][e[2]] + EmissionRole(e[1], e[3], e[4]) * (2 * window + 1)
                      + (p - e[3])
    IN  /\ \A sp \in matched : F[sp] # <<>>
        /\ \A p \in 0..(sentence.size - 1) :
             LET here == { e \in E : e[3] - window <= p /\ p <= e[3] + window }
                 want == { Id(e, p) : e \in here }
             IN  /\ Len(sentence.features[p]) = Cardinality(here)
                 /\ \A v \in want :
                      CountIn(sentence.features[p], v)
                        = Cardinality({ e \in here : Id(e, p) = v })

\* a three-token phrase was matched: its middle token carries the I id
C3_Witness ==
  /\ status = "ready"
  /\ call.kind = "gazetteers"
  /\ sentence.size = 3
  /\ JoinLemmas(sentence, 0, 2) \in FullPhrases
  /\ \E k \in 1..Len(sentence.features[1]) :
       sentence.features[1][k]
         = StoredFeatures(map, gazetteers_info, JoinLemmas(sentence, 0, 2))[1]
             + gaz_I * (2 * window + 1)

\* ------------------------------------------------------------------------
\* save and load
\* ------------------------------------------------------------------------
\* number of values of one byte
Byte == 256

\* binary_encoder::add_4B: four bytes, low byte first
add_4B(v) ==
  <<v % Byte, (v \div Byte) % Byte, (v \div (Byte * Byte)) % Byte,
    (v \div (Byte * Byte * Byte)) % Byte>>

\* binary_encoder::add_1B: the one byte of the layout
add_1B(v) == <<v % Byte>>

add_bool(b) == add_1B(IF b THEN 1 ELSE 0)

\* a run of add_4B over a vector
add_4B_all(fs) ==
  [k \in 1..(4 * Len(fs)) |-> add_4B(fs[((k - 1) \div 4) + 1])[((k - 1) % 4) + 1]]

\* binary_decoder: d is [data, pos, ok]; a read past the end fails
Decoder(bytes) == [data |-> bytes, pos |-> 1, ok |-> TRUE]

can_read(d, n) == d.ok /\ d.pos + n - 1 <= Len(d.data)

\* the value of the four bytes at pos, read as the 32-bit pattern (~0U is -1)
peek_4B(d, pos) ==
  d.data[pos] + Byte * d.data[pos + 1] + Byte * Byte * d.data[pos + 2]
    + Byte * Byte * Byte * (IF d.data[pos + 3] >= 128 THEN d.data[pos + 3] - Byte
                                                      ELSE d.data[pos + 3])

skip(d, n) == IF can_read(d, n) THEN [d EXCEPT !.pos = @ + n] ELSE [d EXCEPT !.ok = FALSE]

\* feature_processor::save and load of the base class: the window (the
\* interned table, which the base class also stores, is left in map)
base_save(win) == add_4B(win)

\* gazetteers::save
RECURSIVE gazetteers_save_from(_, _)
gazetteers_save_from(info, k) ==
  IF k > Len(info) THEN <<>>
  ELSE ((add_bool(info[k].prefix_of_longer) \o add_1B(Len(info[k].features)))
          \o add_4B_all(info[k].features))
         \o gazetteers_save_from(info, k + 1)

gazetteers_save(win, info) ==
  (base_save(win) \o add_4B(Len(info))) \o gazetteers_save_from(info, 1)

\* gazetteers::load: n entries are still to be read
RECURSIVE gazetteers_load_from(_, _, _)
gazetteers_load_from(d, n, info) ==
  IF n = 0 \/ ~d.ok THEN [d |-> d, info |-> info]
  ELSE IF ~can_read(d, 2) THEN [d |-> [d EXCEPT !.ok = FALSE], info |-> info]
  ELSE LET count == d.data[d.pos + 1]
           d1 == skip(d, 2)
       IN  IF ~can_read(d1, 4 * count) THEN [d |-> [d1 EXCEPT !.ok = FALSE], info |-> info]
           ELSE gazetteers_load_from(
                  skip(d1, 4 * count), n - 1,
                  Append(info, [features |-> [k \in 1..count |-> peek_4B(d1, d1.pos + 4 * (k - 1))],
                                prefix_of_longer |-> d.data[d.pos] # 0]))

gazetteers_load(bytes) ==
  LET d == Decoder(bytes) IN
  IF ~can_read(d, 8) THEN [ok |-> FALSE, window |-> 0, info |-> <<>>]
  ELSE LET r == gazetteers_load_from(skip(d, 8), peek_4B(d, 5), <<>>) IN
       [ok |-> r.d.ok, window |-> peek_4B(d, 1), info |-> r.info]

\* brown_clusters::save
RECURSIVE brown_save_from(_, _)
brown_save_from(cl, k) ==
  IF k > Len(cl) THEN <<>>
  ELSE (add_4B(Len(cl[k])) \o add_4B_all(cl[k])) \o brown_save_from(cl, k + 1)

brown_clusters_save(win, cl) ==
  (base_save(win) \o add_4B(Len(cl))) \o brown_save_from(cl, 1)

\* brown_clusters::load
RECURSIVE brown_load_from(_, _, _)
brown_load_from(d, n, cl) ==
  IF n = 0 \/ ~d.ok THEN [d |-> d, clusters |-> cl]
  ELSE IF ~can_read(d, 4) THEN [d |-> [d EXCEPT !.ok = FALSE], clusters |-> cl]
  ELSE LET count == peek_4B(d, d.pos)
           d1 == skip(d, 4)
       IN  IF ~can_read(d1, 4 * count) THEN [d |-> [d1 EXCEPT !.ok = FALSE], clusters |-> cl]
           ELSE brown_load_from(
                  skip(d1, 4 * count), n - 1,
                  Append(cl, [k \in 1..count |-> peek_4B(d1, d1.pos + 4 * (k - 1))]))

brown_clusters_load(bytes) ==
  LET d == Decoder(bytes) IN
  IF ~can_read(d, 8) THEN [ok |-> FALSE, window |-> 0, clusters |-> <<>>]
  ELSE LET r == brown_load_from(skip(d, 8), peek_4B(d, 5), <<>>) IN
       [ok |-> r.d.ok, window |-> peek_4B(d, 1), clusters |-> r.clusters]

\* url_email_detector::save and load
url_email_save(win, u, e) == (base_save(win) \o add_4B(u)) \o add_4B(e)

url_email_load(bytes) ==
  LET d == Decoder(bytes) IN
  IF ~can_read(d, 12) THEN [ok |-> FALSE, window |-> 0, url |-> 0, email |-> 0]
  ELSE [ok |-> TRUE, window |-> peek_4B(d, 1), url |-> peek_4B(d, 5), email |-> peek_4B(d, 9)]

\* ------------------------------------------------------------------------
\* SpecSave: a processor is parsed, saved, loaded into a fresh processor
\* and saved again
\* ------------------------------------------------------------------------
InitSave ==
  InitProcessor({"Gazetteers", "BrownClusters", "URLEmailDetector", "CzechAddContainers"})

\* as many gazetteer files as a byte has values, all listing one phrase
ManyFiles == [k \in 1..Byte |-> File(GazFileA)]

GazParseMany == GazParseOf({ManyFiles})

CzechParse ==
  /\ name = "CzechAddContainers"
  /\ status = "new"
  /\ status' = IF window # 0 THEN "failed" ELSE "ready"
  /\ call' = [kind |-> "parse"]
  /\ UNCHANGED <<procVars, runVars, sentence, entVars, data, steps>>

Save ==
  /\ status = "ready"
  /\ steps < MaxCalls
  /\ data' = IF name = "Gazetteers" THEN gazetteers_save(window, gazetteers_info)
             ELSE IF name = "BrownClusters" THEN brown_clusters_save(window, clusters)
             ELSE IF name = "URLEmailDetector" THEN url_email_save(window, url, email)
             ELSE <<>>
  /\ call' = [kind |-> "save"]
  /\ steps' = steps + 1
  /\ UNCHANGED <<procVars, runVars, sentence, entVars, status>>

\* a fresh processor of the same name loads what was saved
Load ==
  /\ call.kind = "save"
  /\ \/ /\ name = "Gazetteers"
        /\ LET r == gazetteers_load(data) IN
             /\ window' = r.window
             /\ gazetteers_info' = r.info
             /\ status' = IF r.ok THEN "ready" ELSE "failed"
        /\ UNCHANGED <<clusters, url, email>>
     \/ /\ name = "BrownClusters"
        /\ LET r == brown_clusters_load(data) IN
             /\ window' = r.window
             /\ clusters' = r.clusters
             /\ status' = IF r.ok THEN "ready" ELSE "failed"
        /\ UNCHANGED <<gazetteers_info, url, email>>
     \/ /\ name = "URLEmailDetector"
        /\ LET r == url_email_load(data) IN
             /\ window' = r.window
             /\ url' = r.url
             /\ email' = r.email
             /\ status' = IF r.ok THEN "ready" ELSE "failed"
        /\ UNCHANGED <<clusters, gazetteers_info>>
     \/ /\ name = "CzechAddContainers"
        /\ UNCHANGED <<window, clusters, gazetteers_info, url, email, status>>
  /\ call' = [kind |-> "load"]
  /\ UNCHANGED <<total_features, map, runVars, sentence, entVars, data, steps>>

NextSave == GazParse \/ GazParseMany \/ BrownParse \/ UrlParse \/ CzechParse \/ Save \/ Load

SpecSave == InitSave /\ [][NextSave]_vars

\* C9: what save wrote is read back by load into an identical state, and
\* the save after the load writes the same bytes.
C9_RoundTrip ==
  [][ /\ call'.kind = "load" =>
           /\ status' = "ready"
           /\ window' = window
           /\ clusters' = clusters
           /\ gazetteers_info' = gazetteers_info
           /\ url' = url
           /\ email' = email
      /\ (call.kind = "load" /\ call'.kind = "save") => data' = data ]_vars

\* ------------------------------------------------------------------------
\* FormCapitalization
\* ------------------------------------------------------------------------
UpperLetters ==
  {"A", "B", "C", "D", "E", "F", "G", "H", "I", "J", "K", "L", "M",
   "N", "O", "P", "Q", "R", "S", "T", "U", "V", "W", "X", "Y", "Z"}
LowerLetters ==
  {"a", "b", "c", "d", "e", "f", "g", "h", "i", "j", "k", "l", "m",
   "n", "o", "p", "q", "r", "s", "t", "u", "v", "w", "x", "y", "z"}

\* unicode::category of a codepoint, for the codepoints of the models:
\* uppercase letters are Lu, lowercase letters Ll, everything else is in
\* neither of the two masks the processor tests
category(chr) ==
  IF chr \in UpperLetters THEN "Lu"
  ELSE IF chr \in LowerLetters THEN "Ll"
  ELSE "other"

\* the inner loop over the codepoints of a form: the flags are updated
\* first, and the first-capital feature is applied at the first codepoint
\* when that codepoint set was_upper
RECURSIVE capitalization_scan(_, _, _, _, _, _, _, _)
capitalization_scan(s, win, i, form, pos, was_upper, was_lower, fst_cap) ==
  IF pos > Len(form)
    THEN [sentence |-> s, was_upper |-> was_upper, was_lower |-> was_lower]
    ELSE LET cat == category(form[pos])
             u == was_upper \/ cat \in {"Lu", "Lt"}
             l == was_lower \/ cat = "Ll"
         IN  capitalization_scan(apply_if(pos = 1 /\ u, s, win, i, fst_cap),
                                 win, i, form, pos + 1, u, l, fst_cap)

form_capitalization_token_all(s, win, i, f) ==
  LET r == capitalization_scan(s, win, i, s.words[i].form, 1, FALSE, FALSE, f[1])
      s1 == apply_if(r.was_upper, r.sentence, win, i, f[2])
  IN  apply_if(r.was_upper /\ r.was_lower, s1, win, i, f[3])

\* the body of the loop of form_capitalization::process_sentence; f holds
\* the ids of fst_cap, all_cap, mixed_cap
form_capitalization_token(s, win, i, f) ==
  LET r == capitalization_scan(s, win, i, s.words[i].form, 1, FALSE, FALSE, f[1])
      s1 == apply_if(r.was_upper /\ ~r.was_lower, r.sentence, win, i, f[2])
  IN  apply_if(r.was_upper /\ r.was_lower, s1, win, i, f[3])

RECURSIVE form_capitalization_loop(_, _, _, _)
form_capitalization_loop(s, win, i, f) ==
  IF i < s.size
    THEN form_capitalization_loop(form_capitalization_token(s, win, i, f), win, i + 1, f)
    ELSE s

CapitalizationKeys == <<"f", "a", "m">>

form_capitalization_process_sentence(s, m, tf, win, training) ==
  LET l == lookup_all(m, tf, win, CapitalizationKeys, 1, training, <<>>) IN
  Run(form_capitalization_loop(s, win, 0, l.features), l.map, l.total_features)

CapScenarioForms ==
  << <<"P", "r", "a", "g", "u", "e">>, <<"I", "S">>, <<"n", "i", "c", "e">>,
     <<"m", "I", "x", "E", "d">> >>

CapForms ==
  { CapScenarioForms[k] : k \in 1..4 } \cup
  { <<>>, <<"A">>, <<"a">>, <<"1">>, <<"1", "A">>, <<"A", "1">>, <<"a", "B">>,
    <<"-", "b">> }

InitCapitalization ==
  /\ window \in 0..MaxWindow
  /\ name = "FormCapitalization"
  /\ IdleProc
  /\ IdleEnt
  /\ \/ sentence = SentenceOfForms(CapScenarioForms)
     \/ \E n \in 0..MaxNumTokens : \E fs \in [1..n -> CapForms] :
          sentence = SentenceOfForms(fs)
  /\ data = <<>>
  /\ status = "ready"
  /\ call = NoCall
  /\ steps = 0

CapitalizationProcessSentence ==
  /\ steps < MaxCalls
  /\ \E training \in BOOLEAN :
       LET r == form_capitalization_process_sentence(sentence, map, total_features,
                                                      window, training) IN
         /\ sentence' = r.sentence
         /\ map' = r.map
         /\ total_features' = r.total_features
         /\ call' = [kind |-> "capitalization", training |-> training]
  /\ steps' = steps + 1
  /\ UNCHANGED <<window, clusters, gazetteers_info, url, email, entVars, runVars, data, status>>

NextCapitalization == CapitalizationProcessSentence

SpecCapitalization == InitCapitalization /\ [][NextCapitalization]_vars

\* a call on the scenario forms, with the three features known, appends to
\* every position exactly the ids that the list em of (centre, key)
\* emissions puts there
CapEmitsExactly(em) ==
  ( /\ call'.kind = "capitalization"
    /\ sentence.words = SentenceOfForms(CapScenarioForms).words
    /\ \A k \in 1..3 : <<CapitalizationKeys[k]>> \in DOMAIN map' )
  => \A p \in 0..3 :
       /\ IsPrefix(sentence.features[p], sentence'.features[p])
       /\ BagOf(Suffix(sentence'.features[p], sentence.features[p]))
            = BagOf(EmittedAt(map', window, em, 1, p))

\* C11 as stated: on ["Prague", "IS", "nice", "mIxEd"] the first-capital
\* feature f is emitted in the windows centred at 0, 1 and 3, the
\* all-capital feature a in the window centred at 1 only, the mixed feature
\* m in the window centred at 3 only, and nothing is centred at 2.
C11_AsStated ==
  [][ CapEmitsExactly(<< <<0, "f">>, <<1, "f">>, <<3, "f">>,
                         <<1, "a">>,
                         <<3, "m">> >>) ]_vars

\* C11 amended: on the same forms f is emitted in the windows centred at 0
\* and 1 only ("mIxEd" starts with a lowercase letter), a in the window
\* centred at 1 only, m in the windows centred at 0 and 3 ("Prague" has
\* both an uppercase and a lowercase letter), and nothing is centred at 2.
C11_Amended ==
  [][ CapEmitsExactly(<< <<0, "f">>, <<0, "m">>,
                         <<1, "f">>, <<1, "a">>,
                         <<3, "m">> >>) ]_vars

\* the four forms were processed once with the three features known: the
\* mixed feature sits on positions 0 and 3, the first-capital feature does
\* not sit on position 3
C11_Witness ==
  /\ call.kind = "capitalization"
  /\ steps = 1
  /\ window = 0
  /\ sentence.words = SentenceOfForms(CapScenarioForms).words
  /\ \A k \in 1..3 : <<CapitalizationKeys[k]>> \in DOMAIN map
  /\ sentence.features[0] = <<map[<<"f">>], map[<<"m">>]>>
  /\ sentence.features[1] = <<map[<<"f">>], map[<<"a">>]>>
  /\ sentence.features[2] = <<>>
  /\ sentence.features[3] = <<map[<<"m">>]>>

====
